---- MODULE Spec2Model ----
(***************************************************************************)
(* LifeOS local-first persistence and synchronisation engine.              *)
(*                                                                         *)
(* One storage handle for one collection, as StorageFactory.create builds  *)
(* it: an IndexedDBStorage, optionally wrapped in a SyncStorage that owns  *)
(* a SyncService.  Callers invoke getAll / save / delete; every `await`    *)
(* of the source is a suspension point, so each action below is one        *)
(* synchronous run of a handler between two suspension points.             *)
(*                                                                         *)
(* Five specifications share the module.  Spec: getAll / save / delete on  *)
(* a built handle.  StoreSpec: the same with getById and clear.            *)
(* UploadSpec: saves only, every local operation and upload succeeding.    *)
(* ConfigSpec: the persisted sync configuration, StorageFactory.create and *)
(* saveSyncConfig around one handle.  SwSpec: the service worker's         *)
(* install, activate, fetch and message handlers over cache storage.       *)
(***************************************************************************)
EXTENDS Integers, Sequences, FiniteSets, TLC

\* ------------------------------------------------------------------ bounds
MaxCalls == 2      \* storage operations invoked in one run
MaxClock == 2      \* instants the wall clock (new Date()) is read at: 1..MaxClock

\* ------------------------------------------------------------- value sets
IdOrder == <<"t1", "t2">>                \* record ids, in key order
Ids == {IdOrder[i] : i \in 1..Len(IdOrder)}
Procs == {"p1", "p2"}                    \* concurrently pending calls

\* IStorable: id, createdAt, updatedAt (0 stands for an omitted timestamp),
\* plus one opaque payload field.
NoRec == [id |-> "", title |-> "", createdAt |-> 0, updatedAt |-> 0]

Rec(i, t, c, u) == [id |-> i, title |-> t, createdAt |-> c, updatedAt |-> u]

EmptyStore == [i \in Ids |-> NoRec]

\* The records of a store as a list, in key order (db.getAll / GET items).
ItemsOf(store) ==
    SelectSeq([k \in 1..Len(IdOrder) |-> store[IdOrder[k]]],
              LAMBDA r : r # NoRec)

IdsOf(items) == {items[k].id : k \in 1..Len(items)}

KeysOf(store) == {i \in Ids : store[i] # NoRec}

\* new Map(items.map(item => [item.id, item])): the last entry of an id wins.
RECURSIVE MapOf(_)
MapOf(items) ==
    IF items = <<>> THEN EmptyStore
    ELSE LET n == Len(items)
         IN  [MapOf(SubSeq(items, 1, n - 1)) EXCEPT ![items[n].id] = items[n]]

VARIABLES
    local,        \* the IndexedDB object store of the collection: id -> record
    remote,       \* the backend's snapshot of the collection: id -> record
    online,       \* navigator.onLine as canSync last read it
    handle,       \* the handle: wrapped by SyncStorage or not, and its config
    clock,        \* the wall clock at its last reading
    calls,        \* operations invoked so far
    net,          \* detached PUT / DELETE requests in flight
    kind,         \* per pending call: the operation
    pc,           \* per pending call: where it is suspended
    arg,          \* per pending call: the record (save) or the id (delete)
    localItems,   \* getAll: the localItems array
    localMap,     \* getAll: the localMap built from localItems
    remoteItems,  \* getAll: what is left of downloadItems' result to merge
    status,       \* per call: pending, resolved or rejected
    result,       \* per call: the value the promise resolved with
    alone,        \* history: no other call ran while this one was pending
    resp,         \* history: the response the call's GET received
    deleted,      \* history: ids removed by a resolved delete or clear, no save since
    ban,          \* history: ids removed before a getAll began, not saved since
    lastSave,     \* history: per id, the last save that wrote it, if nothing else has since
    slot,         \* localStorage['lifeos-sync-config']: the persisted configuration
    created,      \* StorageFactory.create: not called yet, returned, or threw
    buckets,      \* service worker: the origin's cache storage, name -> bucket
    worker,       \* service worker: its lifecycle state and the install / activate promises
    network,      \* service worker: whether its last fetch(request) reached the server
    fetchEv,      \* service worker: the fetch event being handled
    puts          \* service worker: cache.put calls started and not yet settled

vars == <<local, remote, online, handle, clock, calls, net, kind, pc, arg,
          localItems, localMap, remoteItems, status, result,
          alone, resp, deleted, ban, lastSave, slot, created,
          buckets, worker, network, fetchEv, puts>>

\* The process-wide configuration state, which no storage operation touches.
cfgVars == <<slot, created>>

\* The page's storage state, which the service worker never touches.
pageVars == <<local, remote, online, handle, clock, calls, net, kind, pc, arg,
              localItems, localMap, remoteItems, status, result,
              alone, resp, deleted, ban, lastSave>>

\* The service worker's state, which lives in another global scope.
swVars == <<buckets, worker, network, fetchEv, puts>>

NoResp == [outcome |-> "none", items |-> <<>>]

\* What a call's promise resolved with: the list (getAll), the record (save)
\* or the flag (delete).
NoResult == [items |-> <<>>, item |-> NoRec, ok |-> FALSE]

\* No save of the id is on record.
NoSave == [item |-> NoRec, at |-> 0]

\* ------------------------------------------------------- IndexedDBStorage

\* new Date(): the instant of the last reading or the next one.  Only the
\* order of instants is ever used, so advancing by one at a time loses nothing.
Now == {clock, clock + 1} \cap (1..MaxClock)

\* ItemToSave trusting an updatedAt the caller supplied.
ItemToSaveKeepsUpdatedAt(item, now) ==
    [item EXCEPT !.updatedAt = IF item.updatedAt # 0 THEN item.updatedAt ELSE now,
                 !.createdAt = IF item.createdAt # 0 THEN item.createdAt ELSE now]

\* IndexedDBStorage.save: the record that is put, stamped at time `now`.
ItemToSave(item, now) ==
    [item EXCEPT !.updatedAt = now,
                 !.createdAt = IF item.createdAt # 0 THEN item.createdAt ELSE now]

\* db.put(storeName, itemToSave): keyed by id, replacing what was there.
DbPut(store, item) == [store EXCEPT ![item.id] = item]

\* db.delete(storeName, id) removes the key; the request's result, which is
\* what the promise resolves with, is undefined whether the key was there or not.
Undefined == "undefined"

DbDelete(store, id) == [store EXCEPT ![id] = NoRec]

DbDeleteResult(store, id) == Undefined

DeleteReturnsTrue(store, id) == TRUE

\* IndexedDBStorage.delete: `return result !== undefined`.
DeleteReturn(store, id) == DbDeleteResult(store, id) # Undefined

\* ------------------------------------------------------------ sync-config

\* The persisted slot: absent, text that is not JSON, JSON null, another JSON
\* value that is no object (a number, a string, a boolean), or a JSON object
\* with its enabled and endpoint members (FALSE: missing or falsy).
SlotKinds == {"absent", "text", "null", "value", "object"}

Stored(k, e, u) == [kind |-> k, enabled |-> e, endpoint |-> u]

SyncConfigs == {Stored("object", e, u) : e, u \in BOOLEAN}

Slots ==
    {Stored(k, FALSE, FALSE) : k \in SlotKinds \ {"object"}} \cup SyncConfigs

defaultSyncConfig == Stored("object", FALSE, FALSE)

\* getSyncConfig: the default when nothing is stored or JSON.parse throws;
\* otherwise whatever JSON.parse returns, null included.  A member read of a
\* value that is no object gives undefined, which is falsy.
getSyncConfig(stored) ==
    IF stored.kind \in {"absent", "text"} THEN defaultSyncConfig ELSE stored

\* saveSyncConfig: JSON.stringify of the configuration object.
Stringify(config) == Stored("object", config.enabled, config.endpoint)

\* ------------------------------------------------------------ SyncService

\* canSync without the navigator.onLine test.
CanSyncIgnoresOnline == handle.enabled /\ handle.endpoint

\* canSync consulting the persisted configuration instead of the captured one.
CanSyncReadsSlot ==
    getSyncConfig(slot).enabled /\ getSyncConfig(slot).endpoint /\ online

\* SyncService.canSync.
CanSync == handle.enabled /\ handle.endpoint /\ online

\* `this.config.enabled` on a SyncStorage whose config is null: a TypeError.
ConfigThrows == handle.wrapped /\ handle.nullcfg

\* SyncStorage's `this.config.enabled`, on a handle that is a SyncStorage.
SyncOn == handle.wrapped /\ handle.enabled

DownloadNewerWins(items, lItems) ==
    SelectSeq(items, LAMBDA r :
        \/ MapOf(lItems)[r.id] = NoRec
        \/ r.updatedAt > MapOf(lItems)[r.id].updatedAt)

DownloadOnlyConflicts(items, lItems) ==
    SelectSeq(items, LAMBDA r : MapOf(lItems)[r.id] # NoRec)

\* SyncService.downloadItemsAsync, from the parsed items on: the remote items
\* whose id is not in localItems.  For an id that is in localItems the
\* timestamps are compared and nothing is done in either case.
DownloadItemsAsync(items, lItems) ==
    SelectSeq(items, LAMBDA r : MapOf(lItems)[r.id] = NoRec)

GetOutcomes == {"ok", "http_error", "network_error", "malformed"}

SendOutcomes == {"ok", "http_error", "network_error"}

\* The response a GET receives: a status and, when a body arrives, its items.
GetResponse(outcome) ==
    [outcome |-> outcome,
     items |-> IF outcome \in {"ok", "http_error"} THEN ItemsOf(remote) ELSE <<>>]

DownloadIgnoresStatus(r, lItems) == DownloadItemsAsync(r.items, lItems)

\* SyncService.downloadItems once the request has been sent: a thrown fetch,
\* a response that is not ok, or a body that does not parse yields [].
DownloadItems(r, lItems) ==
    IF r.outcome = "ok" THEN DownloadItemsAsync(r.items, lItems) ELSE <<>>

PutReq(items) == [kind |-> "PUT", id |-> "", items |-> items]

DeleteReq(id) == [kind |-> "DELETE", id |-> id, items |-> <<>>]

\* ------------------------------------------------------------------- Init

\* No handle: the plain IndexedDBStorage, which has no configuration.
PlainHandle ==
    [wrapped |-> FALSE, enabled |-> FALSE, endpoint |-> FALSE, nullcfg |-> FALSE]

\* new SyncStorage(storage, storeName): its config and its SyncService's config
\* are what getSyncConfig returns at construction; nullcfg: it returned null.
SyncHandle(config) ==
    [wrapped |-> TRUE, enabled |-> config.enabled, endpoint |-> config.endpoint,
     nullcfg |-> config.kind = "null"]

Handles ==
    {h \in [wrapped : BOOLEAN, enabled : BOOLEAN, endpoint : BOOLEAN,
            nullcfg : {FALSE}] :
        ~h.wrapped => (~h.enabled /\ ~h.endpoint)}

LocalInit == {EmptyStore, [EmptyStore EXCEPT !["t1"] = Rec("t1", "a", 1, 1)]}

\* The backend starts empty, or holding a newer version of t1 and a t2.
RemoteInit ==
    {EmptyStore,
     [EmptyStore EXCEPT !["t1"] = Rec("t1", "r", 1, MaxClock),
                        !["t2"] = Rec("t2", "r", 1, 1)]}

\* What callers save: a new record without timestamps, or t1 edited, with the
\* createdAt it was read with and a timestamp of the caller's own.
SaveInputs ==
    {Rec(i, "b", 0, 0) : i \in Ids} \cup {Rec("t1", "b", 1, MaxClock)}

\* --------------------------------------------------------- service worker

CACHE_NAME == "lifeos-v1"

APP_SHELL_CACHE == "lifeos-shell-v1"

STATIC_CACHE == "lifeos-static-v1"

APP_SHELL_RESOURCES == {"/", "/tasks", "/habits", "/finance", "/fitness", "/nutrition"}

STATIC_ASSETS == {"/manifest.json", "/favicon.ico"}

CurrentNames == {CACHE_NAME, APP_SHELL_CACHE, STATIC_CACHE}

\* Buckets a previous generation of the worker left in cache storage.
StaleNames == {"lifeos-v0", "lifeos-shell-v0"}

BucketNames == CurrentNames \cup StaleNames

\* A bucket that does not exist, and a bucket holding entries for urls.
NoBucket == [exists |-> FALSE, keys |-> {}]

Bucket(urls) == [exists |-> TRUE, keys |-> urls]

\* caches.open(name): the bucket is created when it does not exist.
Opened(bs, name) ==
    IF bs[name].exists THEN bs ELSE [bs EXCEPT ![name] = Bucket({})]

\* cache.addAll(urls) / cache.put(url): entries are added to the bucket.
Added(bs, name, urls) ==
    [bs EXCEPT ![name] = Bucket(bs[name].keys \cup urls)]

\* The requests a page of the application issues: a Request's method, whether
\* its url has the worker's origin and an http(s) scheme, its destination,
\* whether its accept header includes text/html, and its path.
Req(m, o, h, d, a, u) ==
    [method |-> m, sameOrigin |-> o, http |-> h, document |-> d, html |-> a,
     path |-> u]

Requests ==
    {Req("GET", TRUE, TRUE, TRUE, TRUE, u) : u \in {"/tasks"}}
    \cup {Req("GET", TRUE, TRUE, FALSE, FALSE, u) :
            u \in {"/favicon.ico", "/api/items"}}
    \cup {Req("POST", TRUE, TRUE, FALSE, FALSE, "/api/items"),
          Req("GET", FALSE, TRUE, FALSE, FALSE, "/favicon.ico"),
          Req("GET", TRUE, FALSE, FALSE, FALSE, "/favicon.ico")}

NoReq == Req("", FALSE, FALSE, FALSE, FALSE, "")

\* isAppShellRequest.
isAppShellRequest(request) == request.document \/ request.html

\* isStaticAsset, on the paths above: '/favicon.ico' is named and ends in .ico.
isStaticAsset(request) ==
    request.path \in {"/manifest.json", "/favicon.ico"}

\* isApiRequest: the path starts with '/api/'.
isApiRequest(request) == request.path \in {"/api/items"}

\* What the requester gets: an entry of the cache, the network's response, a
\* failure, or (the handler did not respond) whatever the browser does itself.
NoResponse == [from |-> "none", ok |-> FALSE, path |-> ""]

Response(f, ok, u) == [from |-> f, ok |-> ok, path |-> u]

\* No fetch event is being handled; trail lists what the handler did, in order.
NoFetch == [request |-> NoReq, pc |-> "idle", response |-> NoResponse, trail |-> <<>>]

\* No worker: the state of the storage engine's page, which registers none here.
NoWorker ==
    [state |-> "none", shell |-> "none", static |-> "none", skipWaiting |-> FALSE,
     forced |-> FALSE, found |-> {}, toDelete |-> {}, failed |-> FALSE,
     claimed |-> FALSE]

\* No service worker is registered (the storage engine runs in the page).
SwIdle ==
    /\ buckets = [n \in BucketNames |-> NoBucket]
    /\ worker = NoWorker
    /\ network = TRUE
    /\ fetchEv = NoFetch
    /\ puts = {}

\* The collection as the page finds it, before any operation.
StoreInit ==
    /\ local \in LocalInit
    /\ remote \in RemoteInit
    /\ online = TRUE
    /\ clock = 1
    /\ calls = 0
    /\ net = {}
    /\ kind = [p \in Procs |-> "none"]
    /\ pc = [p \in Procs |-> "idle"]
    /\ arg = [p \in Procs |-> NoRec]
    /\ localItems = [p \in Procs |-> <<>>]
    /\ localMap = [p \in Procs |-> EmptyStore]
    /\ remoteItems = [p \in Procs |-> <<>>]
    /\ status = [p \in Procs |-> "none"]
    /\ result = [p \in Procs |-> NoResult]
    /\ alone = [p \in Procs |-> FALSE]
    /\ resp = [p \in Procs |-> NoResp]
    /\ deleted = {}
    /\ ban = [p \in Procs |-> {}]
    /\ lastSave = [i \in Ids |-> NoSave]

\* A handle has been built from a valid persisted configuration.
Init ==
    /\ StoreInit
    /\ handle \in Handles
    /\ slot = Stored("absent", FALSE, FALSE)
    /\ created = "built"
    /\ SwIdle

\* --------------------------------------------------------------- the calls

Free(p) == pc[p] \in {"idle", "done"}

\* Pending calls are interchangeable: a new call takes the first free slot.
Slot(p) == IF p = "p1" THEN 1 ELSE 2

\* A caller invokes operation k with argument a: the call runs up to its
\* first await, which is the wrapped store's own call.
Begin(p, k, a, at) ==
    /\ created \notin {"none", "threw"}
    /\ Free(p)
    /\ \A q \in Procs : Free(q) => Slot(p) <= Slot(q)
    /\ calls < MaxCalls
    /\ calls' = calls + 1
    /\ kind' = [kind EXCEPT ![p] = k]
    /\ pc' = [pc EXCEPT ![p] = at]
    /\ arg' = [arg EXCEPT ![p] = a]
    /\ status' = [status EXCEPT ![p] = "pending"]
    /\ result' = [result EXCEPT ![p] = NoResult]
    /\ alone' = [q \in Procs |-> q = p /\ \A r \in Procs \ {p} : Free(r)]
    /\ UNCHANGED <<local, remote, online, handle, clock, net,
                   localItems, localMap, remoteItems, resp, lastSave>>
    /\ UNCHANGED <<cfgVars, swVars>>

\* The call's promise settles with status st and value r; its locals are gone.
Finish(p, st, r) ==
    /\ pc' = [pc EXCEPT ![p] = "done"]
    /\ status' = [status EXCEPT ![p] = st]
    /\ result' = [result EXCEPT ![p] = r]
    /\ localItems' = [localItems EXCEPT ![p] = <<>>]
    /\ localMap' = [localMap EXCEPT ![p] = EmptyStore]
    /\ remoteItems' = [remoteItems EXCEPT ![p] = <<>>]
    /\ resp' = [resp EXCEPT ![p] = NoResp]
    /\ arg' = [arg EXCEPT ![p] = NoRec]
    /\ alone' = [alone EXCEPT ![p] = FALSE]
    /\ ban' = [ban EXCEPT ![p] = {}]

CallGetAll(p) ==
    /\ Begin(p, "getAll", NoRec, "ga_local")
    /\ ban' = [ban EXCEPT ![p] = deleted]
    /\ UNCHANGED deleted

CallSave(p, item) ==
    /\ Begin(p, "save", item, "sv_local")
    /\ deleted' = deleted \ {item.id}
    /\ ban' = [q \in Procs |-> ban[q] \ {item.id}]

CallDelete(p, id) ==
    /\ Begin(p, "delete", [NoRec EXCEPT !.id = id], "dl_local")
    /\ UNCHANGED <<deleted, ban>>

\* canSync reads navigator.onLine, which the device may have changed since
\* the last reading; without sync enabled nothing reads it.
ReadOnline == online' \in (IF SyncOn THEN BOOLEAN ELSE {online})

\* getAll, lines 32-39 of SyncStorage (or IndexedDBStorage.getAll alone on an
\* unwrapped handle): the local read; then, with sync enabled, downloadItems
\* either returns [] at once (canSync false) or sends the GET.
GetAllLocal(p) ==
    /\ pc[p] = "ga_local"
    /\ UNCHANGED <<handle, cfgVars, swVars>>
    /\ \E fault \in BOOLEAN :
         IF fault
         THEN /\ Finish(p, "rejected", NoResult)
              /\ UNCHANGED online
         ELSE /\ ReadOnline
              /\ IF ConfigThrows
                 THEN Finish(p, "rejected", NoResult)
                 ELSE
                 IF SyncOn /\ CanSync'
                 THEN /\ pc' = [pc EXCEPT ![p] = "ga_download"]
                      /\ localItems' = [localItems EXCEPT ![p] = ItemsOf(local)]
                      /\ UNCHANGED <<status, result, localMap, remoteItems, resp, arg,
                                     alone, ban>>
                 ELSE Finish(p, "resolved",
                             [NoResult EXCEPT !.items = ItemsOf(local)])
    /\ UNCHANGED <<local, remote, clock, calls, net, kind, deleted, lastSave>>

\* getAll, lines 39-42: the GET settles, downloadItems returns, localMap is built.
GetAllDownloaded(p) ==
    /\ pc[p] = "ga_download"
    /\ \E o \in GetOutcomes :
         LET r == GetResponse(o) IN
         /\ resp' = [resp EXCEPT ![p] = r]
         /\ remoteItems' = [remoteItems EXCEPT ![p] = DownloadItems(r, localItems[p])]
    /\ localMap' = [localMap EXCEPT ![p] = MapOf(localItems[p])]
    /\ pc' = [pc EXCEPT ![p] = "ga_merge"]
    /\ UNCHANGED <<local, remote, online, handle, clock, calls, net, kind, arg,
                   localItems, status, result, alone, deleted, ban, lastSave>>
    /\ UNCHANGED <<cfgVars, swVars>>

\* getAll, lines 43-56: one turn of the merge loop, or the return after it.  A
\* remote item whose id is not in localMap is saved to the local store (stamped
\* with the time of that save) and pushed as it came; a local save that throws
\* leaves the loop through the catch, and localItems is returned as it is.
GetAllMerge(p) ==
    /\ pc[p] = "ga_merge"
    /\ IF remoteItems[p] = <<>>
       THEN /\ Finish(p, "resolved", [NoResult EXCEPT !.items = localItems[p]])
            /\ UNCHANGED <<local, clock, lastSave>>
       ELSE LET remoteItem == Head(remoteItems[p]) IN
            IF localMap[p][remoteItem.id] # NoRec
            THEN /\ remoteItems' = [remoteItems EXCEPT ![p] = Tail(@)]
                 /\ UNCHANGED <<local, clock, localItems, localMap, resp,
                                pc, status, result, arg, alone, ban, lastSave>>
            ELSE \E fault \in BOOLEAN, now \in Now :
                 IF fault
                 THEN /\ Finish(p, "resolved",
                                [NoResult EXCEPT !.items = localItems[p]])
                      /\ UNCHANGED <<local, clock, lastSave>>
                 ELSE /\ local' = DbPut(local, ItemToSave(remoteItem, now))
                      /\ clock' = now
                      /\ lastSave' = [lastSave EXCEPT ![remoteItem.id] = NoSave]
                      /\ localItems' = [localItems EXCEPT ![p] = Append(@, remoteItem)]
                      /\ remoteItems' = [remoteItems EXCEPT ![p] = Tail(@)]
                      /\ UNCHANGED <<localMap, resp, pc, status, result, arg,
                                     alone, ban>>
    /\ UNCHANGED <<remote, online, handle, calls, net, kind, deleted>>
    /\ UNCHANGED <<cfgVars, swVars>>

\* SaveLocal with uploadItems called before the local write is awaited.
SaveLocalSendsFirst(p) ==
    /\ pc[p] = "sv_local"
    /\ net' = IF SyncOn /\ CanSync THEN net \cup {PutReq(ItemsOf(local))} ELSE net
    /\ \E fault \in BOOLEAN, now \in Now :
         IF fault
         THEN /\ Finish(p, "rejected", NoResult)
              /\ UNCHANGED <<local, clock, lastSave>>
         ELSE LET savedItem == ItemToSave(arg[p], now) IN
              /\ local' = DbPut(local, savedItem)
              /\ clock' = now
              /\ lastSave' = [lastSave EXCEPT ![arg[p].id] = [item |-> arg[p], at |-> now]]
              /\ Finish(p, "resolved", [NoResult EXCEPT !.item = savedItem])
    /\ UNCHANGED <<remote, online, handle, calls, kind, deleted>>
    /\ UNCHANGED <<cfgVars, swVars>>

\* save, line 74 (IndexedDBStorage.save): the local write.  On an unwrapped
\* handle, or with sync not enabled, the saved record is returned.
SaveLocal(p) ==
    /\ pc[p] = "sv_local"
    /\ \E fault \in BOOLEAN, now \in Now :
         IF fault
         THEN /\ Finish(p, "rejected", NoResult)
              /\ UNCHANGED <<local, clock, lastSave>>
         ELSE LET savedItem == ItemToSave(arg[p], now) IN
              /\ local' = DbPut(local, savedItem)
              /\ clock' = now
              /\ lastSave' = [lastSave EXCEPT ![arg[p].id] = [item |-> arg[p], at |-> now]]
              /\ IF ConfigThrows
                 THEN Finish(p, "rejected", NoResult)
                 ELSE
                 IF SyncOn
                 THEN /\ pc' = [pc EXCEPT ![p] = "sv_getall"]
                      /\ result' = [result EXCEPT ![p].item = savedItem]
                      /\ UNCHANGED <<status, localItems, localMap, remoteItems, resp,
                                     arg, alone, ban>>
                 ELSE Finish(p, "resolved", [NoResult EXCEPT !.item = savedItem])
    /\ UNCHANGED <<remote, online, handle, calls, net, kind, deleted>>
    /\ UNCHANGED <<cfgVars, swVars>>

\* SaveGetAll with the upload awaited: save stays pending on the PUT.
SaveGetAllAwaitsUpload(p) ==
    /\ pc[p] = "sv_getall"
    /\ UNCHANGED <<handle, cfgVars, swVars>>
    /\ ReadOnline
    /\ IF CanSync'
       THEN /\ net' = net \cup {PutReq(ItemsOf(local))}
            /\ pc' = [pc EXCEPT ![p] = "sv_upload"]
            /\ UNCHANGED <<status, result, localItems, localMap, remoteItems, resp,
                           arg, alone, ban>>
       ELSE /\ Finish(p, "resolved", result[p])
            /\ UNCHANGED net
    /\ UNCHANGED <<local, remote, clock, calls, kind, deleted, lastSave>>

\* save, lines 78-85: the snapshot is read, uploadItems sends the PUT if
\* canSync holds, and the saved record is returned in the same turn.
SaveGetAll(p) ==
    /\ pc[p] = "sv_getall"
    /\ UNCHANGED <<handle, cfgVars, swVars>>
    /\ \E fault \in BOOLEAN :
         IF fault
         THEN /\ Finish(p, "rejected", NoResult)
              /\ UNCHANGED <<net, online>>
         ELSE /\ ReadOnline
              /\ net' = IF CanSync' THEN net \cup {PutReq(ItemsOf(local))} ELSE net
              /\ Finish(p, "resolved", result[p])
    /\ UNCHANGED <<local, remote, clock, calls, kind, deleted, lastSave>>

\* delete, lines 96-106 (IndexedDBStorage.delete inside): the local delete,
\* then deleteItem sends the DELETE if the local delete reported true.
DeleteLocal(p) ==
    /\ pc[p] = "dl_local"
    /\ UNCHANGED <<handle, cfgVars, swVars>>
    /\ \E fault \in BOOLEAN :
         IF fault
         THEN /\ Finish(p, "rejected", NoResult)
              /\ UNCHANGED <<local, net, deleted, online, lastSave>>
         ELSE LET id == arg[p].id
                  wasDeleted == DeleteReturn(local, id)
              IN  /\ local' = DbDelete(local, id)
                  /\ online' \in (IF wasDeleted /\ SyncOn THEN BOOLEAN ELSE {online})
                  /\ net' = IF wasDeleted /\ SyncOn /\ CanSync'
                            THEN net \cup {DeleteReq(id)} ELSE net
                  /\ deleted' = deleted \cup {id}
                  /\ lastSave' = [lastSave EXCEPT ![id] = NoSave]
                  /\ IF wasDeleted /\ ConfigThrows
                     THEN Finish(p, "rejected", NoResult)
                     ELSE Finish(p, "resolved", [NoResult EXCEPT !.ok = wasDeleted])
    /\ UNCHANGED <<remote, clock, calls, kind>>

\* getById: SyncStorage delegates to IndexedDBStorage.getById.
CallGetById(p, id) ==
    /\ Begin(p, "getById", [NoRec EXCEPT !.id = id], "gb_local")
    /\ UNCHANGED <<deleted, ban>>

\* IndexedDBStorage.getById: db.get resolves with the stored record, or with
\* undefined when the key is not there.
GetByIdLocal(p) ==
    /\ pc[p] = "gb_local"
    /\ \E fault \in BOOLEAN :
         IF fault
         THEN Finish(p, "rejected", NoResult)
         ELSE Finish(p, "resolved", [NoResult EXCEPT !.item = local[arg[p].id]])
    /\ UNCHANGED <<local, remote, online, handle, clock, calls, net, kind,
                   deleted, lastSave>>
    /\ UNCHANGED <<cfgVars, swVars>>

\* clear: SyncStorage delegates to IndexedDBStorage.clear.
CallClear(p) ==
    /\ Begin(p, "clear", NoRec, "cl_local")
    /\ UNCHANGED <<deleted, ban>>

\* IndexedDBStorage.clear: db.clear empties the object store.  Nothing is
\* sent to the backend.
ClearLocal(p) ==
    /\ pc[p] = "cl_local"
    /\ \E fault \in BOOLEAN :
         IF fault
         THEN /\ Finish(p, "rejected", NoResult)
              /\ UNCHANGED <<local, deleted, lastSave>>
         ELSE /\ local' = EmptyStore
              /\ deleted' = Ids
              /\ lastSave' = [i \in Ids |-> NoSave]
              /\ Finish(p, "resolved", NoResult)
    /\ UNCHANGED <<remote, online, handle, clock, calls, net, kind>>
    /\ UNCHANGED <<cfgVars, swVars>>

\* ---------------------------------------------------------- configuration

Overrides == {"undefined", "true", "false"}

\* StorageFactory.create(storeName, 'indexeddb', enableSync): reads the
\* configuration, decides shouldSync and returns the SyncStorage or the plain
\* store.  `syncConfig.enabled` is evaluated only without an override, and
\* throws when syncConfig is null.
Create(enableSync) ==
    /\ created = "none"
    /\ LET syncConfig == getSyncConfig(slot) IN
       IF enableSync = "undefined" /\ syncConfig.kind = "null"
       THEN /\ created' = "threw"
            /\ UNCHANGED handle
       ELSE LET shouldSync == IF enableSync # "undefined"
                              THEN enableSync = "true"
                              ELSE syncConfig.enabled
            IN  /\ handle' = IF shouldSync THEN SyncHandle(getSyncConfig(slot))
                                           ELSE PlainHandle
                /\ created' = CASE enableSync = "undefined" -> "byConfig"
                                 [] enableSync = "true" -> "forcedOn"
                                 [] OTHER -> "forcedOff"
    /\ UNCHANGED <<local, remote, online, clock, calls, net, kind, pc, arg,
                   localItems, localMap, remoteItems, status, result,
                   alone, resp, deleted, ban, lastSave, slot>>
    /\ UNCHANGED swVars

\* saveSyncConfig(config): localStorage.setItem, whose failure is caught.
SaveSyncConfig(config) ==
    /\ \E fault \in BOOLEAN :
         slot' = IF fault THEN slot ELSE Stringify(config)
    /\ UNCHANGED <<local, remote, online, handle, clock, calls, net, kind, pc, arg,
                   localItems, localMap, remoteItems, status, result,
                   alone, resp, deleted, ban, lastSave, created>>
    /\ UNCHANGED swVars

\* --------------------------------------------------------- service worker

\* One of the two branches of install's Promise.all: caches.open(name), then
\* cache.addAll(urls), which fetches every url and stores all or nothing.
Populate(branch, name, urls) ==
    /\ worker[branch] = "pending"
    /\ \E outcome \in {"ok", "open_failed", "addAll_failed"} :
         /\ buckets' = CASE outcome = "ok" -> Added(Opened(buckets, name), name, urls)
                          [] outcome = "addAll_failed" -> Opened(buckets, name)
                          [] OTHER -> buckets
         /\ worker' = [worker EXCEPT ![branch] = IF outcome = "ok" THEN "done"
                                                                   ELSE "failed"]
    /\ UNCHANGED <<network, fetchEv, puts, pageVars, cfgVars>>

\* install, lines 49-52.
InstallShell ==
    /\ worker.shell = "pending"
    /\ Populate("shell", APP_SHELL_CACHE, APP_SHELL_RESOURCES)

\* install, lines 54-57.
InstallStatic ==
    /\ worker.static = "pending"
    /\ Populate("static", STATIC_CACHE, STATIC_ASSETS)

\* Promise.all fulfilled on the first branch to finish.
InstallDoneEarly ==
    /\ worker.state = "installing"
    /\ worker.shell = "done" \/ worker.static = "done"
    /\ worker' = [worker EXCEPT !.state = "installed", !.skipWaiting = TRUE]
    /\ UNCHANGED <<buckets, network, fetchEv, puts, pageVars, cfgVars>>

\* install, lines 58-62: both branches fulfilled, then self.skipWaiting(); the
\* promise given to waitUntil fulfils and the worker is installed.
InstallDone ==
    /\ worker.state = "installing"
    /\ worker.shell = "done" /\ worker.static = "done"
    /\ worker' = [worker EXCEPT !.state = "installed", !.skipWaiting = TRUE]
    /\ UNCHANGED <<buckets, network, fetchEv, puts, pageVars, cfgVars>>

\* install: Promise.all rejects as soon as one branch rejects; the promise
\* given to waitUntil rejects and the worker is discarded.
InstallFail ==
    /\ worker.state = "installing"
    /\ worker.shell = "failed" \/ worker.static = "failed"
    /\ worker' = [worker EXCEPT !.state = "redundant"]
    /\ UNCHANGED <<buckets, network, fetchEv, puts, pageVars, cfgVars>>

\* The filter with || where the source has &&: true of every name.
SweepFilterAny(cacheName) ==
    \/ cacheName # APP_SHELL_CACHE
    \/ cacheName # STATIC_CACHE
    \/ cacheName # CACHE_NAME

\* activate, lines 76-83: the names to delete.
SweepFilter(cacheName) ==
    /\ cacheName # APP_SHELL_CACHE
    /\ cacheName # STATIC_CACHE
    /\ cacheName # CACHE_NAME

\* activate, lines 72-88: caches.keys() resolves with the names that exist and a
\* caches.delete is started for each name the filter keeps.
Activate ==
    /\ worker.state = "installed"
    /\ \E fault \in BOOLEAN :
         LET cacheNames == {n \in BucketNames : buckets[n].exists} IN
         worker' = IF fault
                   THEN [worker EXCEPT !.state = "activating", !.forced = FALSE,
                                       !.failed = TRUE]
                   ELSE [worker EXCEPT !.state = "activating",
                                       !.forced = FALSE,
                                       !.found = cacheNames,
                                       !.toDelete = {n \in cacheNames : SweepFilter(n)}]
    /\ UNCHANGED <<buckets, network, fetchEv, puts, pageVars, cfgVars>>

\* One caches.delete(cacheName) settles.
SweepDelete(cacheName) ==
    /\ cacheName \in worker.toDelete
    /\ \E fault \in BOOLEAN :
         IF fault
         THEN /\ worker' = [worker EXCEPT !.toDelete = @ \ {cacheName},
                                          !.failed = TRUE]
              /\ UNCHANGED buckets
         ELSE /\ worker' = [worker EXCEPT !.toDelete = @ \ {cacheName}]
              /\ buckets' = [buckets EXCEPT ![cacheName] = NoBucket]
    /\ UNCHANGED <<network, fetchEv, puts, pageVars, cfgVars>>

\* claim() called without waiting for the deletes (Promise.all not returned).
ActivateDoneEarly ==
    /\ worker.state = "activating"
    /\ ~worker.failed
    /\ worker' = [worker EXCEPT !.state = "activated", !.claimed = TRUE]
    /\ UNCHANGED <<buckets, network, fetchEv, puts, pageVars, cfgVars>>

\* activate, lines 89-93: every delete fulfilled, then self.clients.claim().
ActivateDone ==
    /\ worker.state = "activating"
    /\ worker.toDelete = {} /\ ~worker.failed
    /\ worker' = [worker EXCEPT !.state = "activated", !.claimed = TRUE]
    /\ UNCHANGED <<buckets, network, fetchEv, puts, pageVars, cfgVars>>

\* activate: caches.keys or a delete rejected; the promise given to waitUntil
\* rejects, claim is not called, and the browser activates the worker anyway.
ActivateFail ==
    /\ worker.state = "activating"
    /\ worker.failed
    /\ worker' = [worker EXCEPT !.state = "activated"]
    /\ UNCHANGED <<buckets, network, fetchEv, puts, pageVars, cfgVars>>

\* The handler responds with r and the event is over.
Respond(r, did) ==
    fetchEv' = [fetchEv EXCEPT !.pc = "done", !.response = r,
                               !.trail = @ \o did]

\* The handler goes on to its next await.
Goto(at, did) ==
    fetchEv' = [fetchEv EXCEPT !.pc = at, !.trail = @ \o did]

Failure == Response("error", FALSE, "")

\* The handler without its test of request.method.
FetchEventAnyMethod(request) ==
    /\ worker.state = "activated"
    /\ fetchEv.pc \in {"idle", "done"}
    /\ fetchEv' =
         [request |-> request, response |-> NoResponse, trail |-> <<>>,
          pc |-> IF \/ ~request.sameOrigin
                    \/ ~request.http
                 THEN "done"
                 ELSE IF isAppShellRequest(request) \/ isStaticAsset(request)
                 THEN "cf_open"
                 ELSE "nf_open"]
    /\ UNCHANGED <<buckets, worker, network, puts, pageVars, cfgVars>>

\* fetch, lines 100-133: the handler returns without responding, or responds
\* with cacheFirst(request) or networkFirst(request), which run up to their
\* first await, caches.open(CACHE_NAME).
FetchEvent(request) ==
    /\ worker.state = "activated"
    /\ fetchEv.pc \in {"idle", "done"}
    /\ fetchEv' =
         [request |-> request, response |-> NoResponse, trail |-> <<>>,
          pc |-> IF \/ request.method # "GET"
                    \/ ~request.sameOrigin
                    \/ ~request.http
                 THEN "done"
                 ELSE IF isAppShellRequest(request) \/ isStaticAsset(request)
                 THEN "cf_open"
                 ELSE IF isApiRequest(request) THEN "nf_open" ELSE "nf_open"]
    /\ UNCHANGED <<buckets, worker, network, puts, pageVars, cfgVars>>

\* caches.open(CACHE_NAME) settles, in cacheFirst (then cache.match(request)
\* is called and awaited) or in networkFirst (then fetch(request) is called
\* and awaited); did is what the handler has done when it suspends again.
OpenCache(at, next, did) ==
    /\ fetchEv.pc = at
    /\ \E fault \in BOOLEAN :
         IF fault
         THEN Respond(Failure, <<"open">>) /\ UNCHANGED buckets
         ELSE Goto(next, did) /\ buckets' = Opened(buckets, CACHE_NAME)
    /\ UNCHANGED <<worker, network, puts, pageVars, cfgVars>>

\* cacheFirst, line 188.
CfOpen ==
    /\ fetchEv.pc = "cf_open"
    /\ OpenCache("cf_open", "cf_match", <<"open">>)

\* cacheFirst without line 191's return: the network is asked in any case.
CfMatchAlwaysFetches ==
    /\ fetchEv.pc = "cf_match"
    /\ Goto("cf_fetch", <<"match", "fetch">>)
    /\ UNCHANGED <<buckets, worker, network, puts, pageVars, cfgVars>>

\* cacheFirst, lines 189-196: the entry when there is one, else fetch(request).
CfMatch ==
    /\ fetchEv.pc = "cf_match"
    /\ IF fetchEv.request.path \in buckets[CACHE_NAME].keys
       THEN Respond(Response("cache", TRUE, fetchEv.request.path), <<"match">>)
       ELSE Goto("cf_fetch", <<"match", "fetch">>)
    /\ UNCHANGED <<buckets, worker, network, puts, pageVars, cfgVars>>

\* fetch(request) settles: a response, ok or not, or a rejection when the
\* server cannot be reached.  An ok response is handed to cache.put, which is
\* not awaited, and returned; after a rejection `fallback` is where the catch
\* block goes when it has a cache lookup to make.
Fetched(at, fallback) ==
    /\ fetchEv.pc = at
    /\ \E up \in BOOLEAN, ok \in BOOLEAN :
         /\ network' = up
         /\ IF up
            THEN /\ Respond(Response("network", ok, fetchEv.request.path),
                            IF ok THEN <<"put">> ELSE <<>>)
                 /\ puts' = IF ok THEN puts \cup {fetchEv.request.path} ELSE puts
            ELSE /\ IF fallback = "" THEN Respond(Failure, <<>>)
                                     ELSE Goto(fallback, <<>>)
                 /\ UNCHANGED puts
    /\ UNCHANGED <<buckets, worker, pageVars, cfgVars>>

\* cacheFirst, lines 196-216.
CfFetch ==
    /\ fetchEv.pc = "cf_fetch"
    /\ Fetched("cf_fetch", IF fetchEv.request.document THEN "cf_fallback" ELSE "")

\* cache.match('/') settles: the cached root document, or the error is thrown.
Fallback(at) ==
    /\ fetchEv.pc = at
    /\ IF "/" \in buckets[CACHE_NAME].keys
       THEN Respond(Response("cache", TRUE, "/"), <<"match /">>)
       ELSE Respond(Failure, <<"match /">>)
    /\ UNCHANGED <<buckets, worker, network, puts, pageVars, cfgVars>>

\* cacheFirst, lines 208-215.
CfFallback ==
    /\ fetchEv.pc = "cf_fallback"
    /\ Fallback("cf_fallback")

\* networkFirst going to the cache before the network, as cacheFirst does.
NfOpenLooksUpFirst ==
    /\ fetchEv.pc = "nf_open"
    /\ OpenCache("nf_open", "cf_match", <<"open">>)

\* networkFirst, lines 224-227.
NfOpen ==
    /\ fetchEv.pc = "nf_open"
    /\ OpenCache("nf_open", "nf_fetch", <<"open", "fetch">>)

\* networkFirst, lines 227-238.
NfFetch ==
    /\ Fetched("nf_fetch", "nf_match")
    /\ fetchEv'.pc = "nf_match" => fetchEv'.trail = fetchEv.trail

\* networkFirst, lines 238-251: cache.match(request) after the failed fetch.
\* A request whose destination is 'document' is an app shell request and is
\* answered by cacheFirst, so the root document fallback of lines 244-249 is
\* never reached.
NfMatch ==
    /\ fetchEv.pc = "nf_match"
    /\ IF fetchEv.request.path \in buckets[CACHE_NAME].keys
       THEN Respond(Response("cache", TRUE, fetchEv.request.path), <<"match">>)
       ELSE IF fetchEv.request.document
       THEN Goto("nf_fallback", <<"match">>)
       ELSE Respond(Failure, <<"match">>)
    /\ UNCHANGED <<buckets, worker, network, puts, pageVars, cfgVars>>

\* A cache.put(request, response.clone()) settles.
PutSettle(url) ==
    /\ url \in puts
    /\ puts' = puts \ {url}
    /\ \E fault \in BOOLEAN :
         buckets' = IF fault THEN buckets ELSE Added(buckets, CACHE_NAME, {url})
    /\ UNCHANGED <<worker, network, fetchEv, pageVars, cfgVars>>

\* message { type: 'SKIP_WAITING' }: self.skipWaiting() sets the worker's skip
\* waiting flag, which its activation uses up.
MessageSkipWaiting ==
    /\ worker.state \in {"installing", "installed"}
    /\ ~worker.forced
    /\ worker' = [worker EXCEPT !.forced = TRUE]
    /\ UNCHANGED <<buckets, network, fetchEv, puts, pageVars, cfgVars>>

CacheUrlLists == {{"/"}}

\* message { type: 'CACHE_URLS', urls }: caches.open(CACHE_NAME), then addAll.
MessageCacheUrls(urls) ==
    /\ worker.state \in {"installing", "installed", "activating", "activated"}
    /\ \E ok \in BOOLEAN :
         buckets' = IF ok THEN Added(Opened(buckets, CACHE_NAME), CACHE_NAME, urls)
                         ELSE Opened(buckets, CACHE_NAME)
    /\ UNCHANGED <<worker, network, fetchEv, puts, pageVars, cfgVars>>

\* ------------------------------------------------------------ environment

\* What the backend holds after a request it answered with success.
Served(req) ==
    IF req.kind = "PUT" THEN MapOf(req.items) ELSE DbDelete(remote, req.id)

\* A detached PUT or DELETE settles; the rejection of a failed one is caught
\* and logged by the .catch of uploadItems / deleteItem.
NetComplete(req) ==
    /\ req \in net
    /\ net' = net \ {req}
    /\ \E o \in SendOutcomes :
         remote' = IF o = "ok" THEN Served(req) ELSE remote
    /\ UNCHANGED <<local, online, handle, clock, calls, kind, pc, arg,
                   localItems, localMap, remoteItems, status, result,
                   alone, resp, deleted, ban, lastSave>>
    /\ UNCHANGED <<cfgVars, swVars>>

Next ==
    \/ \E p \in Procs : CallGetAll(p)
    \/ \E p \in Procs, item \in SaveInputs : CallSave(p, item)
    \/ \E p \in Procs, id \in Ids : CallDelete(p, id)
    \/ \E p \in Procs : GetAllLocal(p)
    \/ \E p \in Procs : GetAllDownloaded(p)
    \/ \E p \in Procs : GetAllMerge(p)
    \/ \E p \in Procs : SaveLocal(p)
    \/ \E p \in Procs : SaveGetAll(p)
    \/ \E p \in Procs : DeleteLocal(p)
    \/ \E req \in net : NetComplete(req)

Spec == Init /\ [][Next]_vars

\* The same handle with the whole IStorage contract in use: getById and clear
\* as well.
StoreNext ==
    \/ Next
    \/ \E p \in Procs, id \in Ids : CallGetById(p, id)
    \/ \E p \in Procs : GetByIdLocal(p)
    \/ \E p \in Procs : CallClear(p)
    \/ \E p \in Procs : ClearLocal(p)

StoreSpec == Init /\ [][StoreNext]_vars

\* The page from its start: the slot holds whatever was left there, no handle
\* has been created yet.
ConfigInit ==
    /\ StoreInit
    /\ handle = PlainHandle
    /\ slot \in Slots
    /\ created = "none"
    /\ SwIdle

\* No storage call is pending.
Quiet == \A q \in Procs : Free(q)

\* The configuration's life around one handle whose caller awaits each storage
\* call before the next; saveSyncConfig may run at any moment.
ConfigNext ==
    \/ \E enableSync \in Overrides : Create(enableSync)
    \/ \E config \in SyncConfigs : SaveSyncConfig(config)
    \/ \E p \in Procs : Quiet /\ CallGetAll(p)
    \/ \E p \in Procs, item \in SaveInputs : Quiet /\ CallSave(p, item)
    \/ \E p \in Procs, id \in Ids : Quiet /\ CallDelete(p, id)
    \/ \E p \in Procs : GetAllLocal(p)
    \/ \E p \in Procs : GetAllDownloaded(p)
    \/ \E p \in Procs : GetAllMerge(p)
    \/ \E p \in Procs : SaveLocal(p)
    \/ \E p \in Procs : SaveGetAll(p)
    \/ \E p \in Procs : DeleteLocal(p)
    \/ \E req \in net : NetComplete(req)

ConfigSpec == ConfigInit /\ [][ConfigNext]_vars

\* A handle with sync enabled and an endpoint, on a device that stays online.
UploadInit ==
    /\ Init
    /\ handle = SyncHandle(Stored("object", TRUE, TRUE))

\* Saves only, one after another or overlapping, where every local operation
\* succeeds, canSync holds at every upload and the backend answers every PUT
\* with success; the PUTs in flight settle in any order.
UploadNext ==
    \/ \E p \in Procs, item \in SaveInputs : CallSave(p, item)
    \/ \E p \in Procs : SaveLocal(p) /\ pc'[p] = "sv_getall"
    \/ \E p \in Procs : SaveGetAll(p) /\ status'[p] = "resolved" /\ online'
    \/ \E req \in net : NetComplete(req) /\ remote' = Served(req)

UploadSpec == UploadInit /\ [][UploadNext]_vars

\* The install event of a new worker has been dispatched; cache storage holds
\* whatever buckets the previous generation left.
SwInit ==
    /\ StoreInit
    /\ local = EmptyStore /\ remote = EmptyStore
    /\ handle = PlainHandle
    /\ slot = Stored("absent", FALSE, FALSE)
    /\ created = "none"
    /\ \E stale \in SUBSET StaleNames :
         buckets = [n \in BucketNames |-> IF n \in stale THEN Bucket({"/"})
                                                         ELSE NoBucket]
    /\ worker = [NoWorker EXCEPT !.state = "installing", !.shell = "pending",
                                 !.static = "pending"]
    /\ network = TRUE
    /\ fetchEv = NoFetch
    /\ puts = {}

SwNext ==
    \/ InstallShell
    \/ InstallStatic
    \/ InstallDone
    \/ InstallFail
    \/ Activate
    \/ \E cacheName \in BucketNames : SweepDelete(cacheName)
    \/ ActivateDone
    \/ ActivateFail
    \/ \E request \in Requests : FetchEvent(request)
    \/ CfOpen
    \/ CfMatch
    \/ CfFetch
    \/ CfFallback
    \/ NfOpen
    \/ NfFetch
    \/ NfMatch
    \/ \E url \in puts : PutSettle(url)
    \/ MessageSkipWaiting
    \/ \E urls \in CacheUrlLists : MessageCacheUrls(urls)

SwSpec == SwInit /\ [][SwNext]_vars

\* ================================================================ claims

\* The step in which call p settles.
Settles(p) == pc[p] # "done" /\ pc'[p] = "done"

\* A step of call p that sends a detached request.
Sends(p) == pc'[p] # pc[p] /\ ~(net' \subseteq net)

\* A turn of call p's merge loop that writes a remote item to the local store.
MergeWrites(p) ==
    /\ pc[p] = "ga_merge"
    /\ pc'[p] = "ga_merge"
    /\ Len(localItems'[p]) > Len(localItems[p])

\* C1: local always wins under interleaving: no write of getAll's merge loop
\* changes a record that is in the local store at the moment of the write, so
\* a record saved locally while the download was in flight keeps its content.
C1_LocalWinsUnderInterleaving ==
    [][\A p \in Procs :
         MergeWrites(p) => \A i \in Ids : local[i] # NoRec => local'[i] = local[i]]_vars

\* C2: conflict rule: downloadItems never returns a record whose id is in the
\* local snapshot it was given, and through a getAll that runs with no
\* concurrent operation, up to its return, every record that was local when it
\* began is the same in the local store, whatever the two updatedAt are.
C2_ConflictRule ==
    \A p \in Procs :
        pc[p] = "ga_merge" =>
            /\ IdsOf(remoteItems[p]) \cap KeysOf(localMap[p]) = {}
            /\ alone[p] => \A i \in KeysOf(localMap[p]) : local[i] = localMap[p][i]

\* C2's case: an undisturbed getAll about to return, having received a remote
\* record strictly newer than the local record of the same id.
C2_Witness ==
    \E p \in Procs :
        /\ pc[p] = "ga_merge" /\ alone[p] /\ remoteItems[p] = <<>>
        /\ resp[p].outcome = "ok"
        /\ \E k \in 1..Len(resp[p].items) :
             LET r == resp[p].items[k] IN
             /\ localMap[p][r.id] # NoRec
             /\ r.updatedAt > localMap[p][r.id].updatedAt
             /\ r.title # localMap[p][r.id].title

\* C3: merge-only-new: when a getAll that runs with no concurrent operation has
\* received the remote snapshot and finished its merge loop (the GET succeeded
\* and no local write failed), the ids in the local store are those that were
\* local before together with those of the remote snapshot, and every record
\* that was local before is unchanged.
C3_MergeOnlyNew ==
    \A p \in Procs :
        (pc[p] = "ga_merge" /\ remoteItems[p] = <<>> /\ alone[p]
            /\ resp[p].outcome = "ok") =>
            /\ KeysOf(local) = KeysOf(localMap[p]) \cup IdsOf(resp[p].items)
            /\ \A i \in KeysOf(localMap[p]) : local[i] = localMap[p][i]

\* C3's case: local {t1}, remote {t1, t2}, and the local store ends as {t1, t2}.
C3_Witness ==
    \E p \in Procs :
        /\ pc[p] = "ga_merge" /\ remoteItems[p] = <<>> /\ alone[p]
        /\ resp[p].outcome = "ok"
        /\ KeysOf(localMap[p]) = {"t1"}
        /\ IdsOf(resp[p].items) = {"t1", "t2"}
        /\ KeysOf(local) = {"t1", "t2"}

\* C4: local-first ordering of save: the step that makes the local write sends
\* nothing, and unless the write fails (save rejects) the record is in the local
\* store when that step ends; a PUT is sent by a save only in a later step,
\* after IndexedDBStorage.save has returned the saved record of this call.
C4_SaveLocalFirst ==
    [][\A p \in Procs :
         /\ (pc[p] = "sv_local" /\ pc'[p] # "sv_local") =>
               /\ net' = net
               /\ status'[p] = "rejected" \/ local'[arg[p].id] = result'[p].item
         /\ (kind[p] = "save" /\ Sends(p)) =>
               /\ pc[p] = "sv_getall"
               /\ result[p].item.id = arg[p].id]_vars

\* C4's case: a PUT is in flight that carries a record this device saved, and
\* the local store holds that record.
C4_Witness ==
    \E req \in net :
        /\ req.kind = "PUT"
        /\ \E k \in 1..Len(req.items) :
             req.items[k].title = "b" /\ local[req.items[k].id] = req.items[k]

\* C5: fire-and-forget: the step of save that sends the PUT also resolves save
\* with the locally saved record, and no outcome of a detached request, at any
\* later time or never, changes what a call resolved with.
C5_FireAndForget ==
    [][/\ \A p \in Procs :
            (kind[p] = "save" /\ Sends(p)) =>
                /\ pc'[p] = "done" /\ status'[p] = "resolved"
                /\ result'[p].item = result[p].item
                /\ result'[p].item.id = arg[p].id
       /\ (net' # net /\ net' \subseteq net) =>
            (status' = status /\ result' = result /\ pc' = pc)]_vars

\* C5's case: save has resolved with the saved record while its PUT is still
\* in flight and the backend does not hold the record.
C5_Witness ==
    \E p \in Procs, req \in net :
        /\ kind[p] = "save" /\ pc[p] = "done" /\ status[p] = "resolved"
        /\ req.kind = "PUT"
        /\ \E k \in 1..Len(req.items) : req.items[k] = result[p].item
        /\ remote[result[p].item.id] # result[p].item

\* C6: transport errors are absorbed: a GET that throws, is answered with a
\* status that is not a success or with a body that does not parse makes
\* downloadItems return the empty list and writes nothing, and getAll then
\* resolves with the list the local store produced; a detached PUT or DELETE
\* that settles, with whatever outcome, changes neither the local store nor
\* the state or value of any call.
C6_TransportErrorsAbsorbed ==
    [][/\ \A p \in Procs :
            /\ (pc[p] = "ga_download" /\ pc'[p] = "ga_merge"
                  /\ resp'[p].outcome # "ok") =>
                  (remoteItems'[p] = <<>> /\ local' = local)
            /\ (pc[p] = "ga_merge" /\ Settles(p) /\ resp[p].outcome # "ok") =>
                  /\ status'[p] = "resolved"
                  /\ result'[p].items = ItemsOf(localMap[p])
       /\ (net' # net /\ net' \subseteq net) =>
            (local' = local /\ status' = status /\ result' = result /\ pc' = pc)]_vars

\* C6's case: the GET of a getAll was answered with an error status while the
\* backend held records that are not local, and getAll is about to return.
C6_Witness ==
    \E p \in Procs :
        /\ pc[p] = "ga_merge"
        /\ resp[p].outcome = "http_error"
        /\ IdsOf(resp[p].items) \ KeysOf(localMap[p]) # {}

\* C7: delete on the local store returns true exactly when a record with that
\* id existed and was removed by the call, and false when none existed.
C7_DeleteReportsRemoval ==
    [][\A p \in Procs :
         (pc[p] = "dl_local" /\ Settles(p) /\ status'[p] = "resolved") =>
             result'[p].ok = (local[arg[p].id] # NoRec)]_vars

\* C8: remote deletion follows a successful local delete: when delete on a sync
\* handle has removed an existing local record, and sync is enabled, the
\* endpoint set and the device online, the DELETE for that id has been sent by
\* the time delete resolves (deleteItem sends it in the turn that resolves).
C8_RemoteDeleteFollows ==
    [][\A p \in Procs :
         (pc[p] = "dl_local" /\ Settles(p) /\ status'[p] = "resolved"
            /\ local[arg[p].id] # NoRec /\ local'[arg[p].id] = NoRec
            /\ SyncOn /\ CanSync') =>
             DeleteReq(arg[p].id) \in net']_vars

\* C9: delete of an id that is not in the collection leaves the local
\* collection unchanged, sends no remote DELETE, and (unless the store itself
\* fails) resolves with false.
C9_DeleteAbsent ==
    [][\A p \in Procs :
         (pc[p] = "dl_local" /\ Settles(p) /\ local[arg[p].id] = NoRec) =>
             /\ local' = local
             /\ net' = net
             /\ status'[p] = "resolved" => result'[p].ok = FALSE]_vars

\* C9's case: on a handle that can sync, the only call so far was a delete of
\* t2, which was not in the collection, and it resolved with false.
C9_Witness ==
    \E p \in Procs :
        /\ calls = 1 /\ kind[p] = "delete" /\ status[p] = "resolved"
        /\ deleted = {"t2"} /\ local["t1"] # NoRec
        /\ ~result[p].ok /\ net = {}
        /\ SyncOn /\ CanSync

\* C10: a deleted record stays deleted: a getAll invoked after delete(id) has
\* resolved, with no save of that id invoked since, returns no record with
\* that id.
C10_DeletedStaysDeleted ==
    [][\A p \in Procs :
         (kind[p] = "getAll" /\ Settles(p) /\ status'[p] = "resolved") =>
             IdsOf(result'[p].items) \cap ban[p] = {}]_vars

\* C11: clear empties the collection, each time it is called: a getAll invoked
\* after a clear has resolved (every id removed, no save invoked since), and
\* running with no concurrent operation, resolves with the empty list.
C11_ClearThenGetAllEmpty ==
    [][\A p \in Procs :
         (kind[p] = "getAll" /\ Settles(p) /\ status'[p] = "resolved"
            /\ alone[p] /\ ban[p] = Ids) =>
             result'[p].items = <<>>]_vars

\* C12: save / read round trip: getById(id) after save(r), r.id = id with
\* createdAt set, and nothing else having written, deleted or cleared the id
\* in between, resolves with r in every field except updatedAt, which is the
\* clock value read by that save, not earlier than the clock was before the
\* write, whatever updatedAt r carried.
C12_SaveReadRoundTrip ==
    [][\A p \in Procs :
         /\ (pc[p] = "gb_local" /\ Settles(p) /\ status'[p] = "resolved"
               /\ lastSave[arg[p].id].item.createdAt # 0) =>
               result'[p].item =
                   [lastSave[arg[p].id].item EXCEPT !.updatedAt = lastSave[arg[p].id].at]
         /\ (pc[p] = "sv_local" /\ pc'[p] # "sv_local" /\ status'[p] # "rejected") =>
               /\ lastSave'[arg[p].id].item = arg[p]
               /\ lastSave'[arg[p].id].at >= clock]_vars

\* C12's case: getById has resolved with the record a save wrote, whose
\* updatedAt is the save's clock reading and not the one the caller passed.
C12_Witness ==
    \E p \in Procs :
        /\ kind[p] = "getById" /\ pc[p] = "done" /\ status[p] = "resolved"
        /\ result[p].item # NoRec
        /\ lastSave[result[p].item.id].item.createdAt # 0
        /\ result[p].item.title = lastSave[result[p].item.id].item.title
        /\ result[p].item.updatedAt = lastSave[result[p].item.id].at
        /\ result[p].item.updatedAt # lastSave[result[p].item.id].item.updatedAt

\* C13: createdAt is written once: a save of an id that is already stored
\* leaves the stored createdAt as it was, also when the record passed to save
\* omits createdAt.
C13_CreatedAtWrittenOnce ==
    [][\A p \in Procs :
         (pc[p] = "sv_local" /\ pc'[p] # "sv_local" /\ local[arg[p].id] # NoRec) =>
             local'[arg[p].id].createdAt = local[arg[p].id].createdAt]_vars

\* C14: the transport is a no-op when it cannot sync: a PUT, DELETE or GET is
\* sent only by a step that found sync enabled, the endpoint set and the device
\* online; a getAll whose local read succeeded on a handle that cannot sync
\* resolves in that step with exactly the local records and writes nothing.
C14_NoOpWhenCannotSync ==
    [][/\ ~(net' \subseteq net) => (handle.enabled /\ handle.endpoint /\ online')
       /\ \A p \in Procs :
            /\ (pc[p] = "ga_local" /\ pc'[p] = "ga_download") =>
                  (handle.enabled /\ handle.endpoint /\ online')
            /\ (pc[p] = "ga_local" /\ pc'[p] # "ga_local" /\ status'[p] # "rejected"
                  /\ ~(handle.enabled /\ handle.endpoint /\ online')) =>
                  /\ Settles(p)
                  /\ result'[p].items = ItemsOf(local)
                  /\ local' = local]_vars

\* C14's case: on a sync handle with sync enabled and the endpoint set, the
\* device went offline; a save and a getAll have resolved, the backend holds
\* records, and nothing was sent.
C14_Witness ==
    /\ handle.wrapped /\ handle.enabled /\ handle.endpoint /\ ~online
    /\ calls = 2 /\ net = {} /\ remote # EmptyStore
    /\ \E p, q \in Procs :
         /\ kind[p] = "save" /\ status[p] = "resolved"
         /\ kind[q] = "getAll" /\ status[q] = "resolved"
         /\ IdsOf(result[q].items) = KeysOf(local)
         /\ remote[result[p].item.id] # result[p].item

\* The step in which StorageFactory.create runs.
Creates == created = "none" /\ created' # "none"

\* C15: facade selection: create without an override returns, and returns the
\* SyncStorage exactly when the configuration read at that call has enabled
\* true, the plain store otherwise; with an override, the override alone
\* decides.
C15_FacadeSelection ==
    [][Creates =>
         /\ created' \notin {"forcedOn", "forcedOff"} =>
               /\ created' = "byConfig"
               /\ handle'.wrapped = (slot.kind = "object" /\ slot.enabled)
         /\ created' = "forcedOn" => handle'.wrapped
         /\ created' = "forcedOff" => ~handle'.wrapped]_vars

\* C16: the configuration is captured at construction: once the handle exists
\* no step changes it, saveSyncConfig included; a request is sent only if the
\* captured configuration has enabled and endpoint, whatever the slot holds
\* now; and a save on a handle captured enabled, with the device online, sends
\* its PUT whatever the slot holds now.
C16_ConfigCapturedAtConstruction ==
    [][/\ created # "none" => handle' = handle
       /\ (\/ ~(net' \subseteq net)
           \/ \E p \in Procs : pc[p] = "ga_local" /\ pc'[p] = "ga_download") =>
             (handle.wrapped /\ handle.enabled /\ handle.endpoint)
       /\ \A p \in Procs :
            (pc[p] = "sv_getall" /\ Settles(p) /\ status'[p] = "resolved"
               /\ handle.enabled /\ handle.endpoint /\ online') =>
                PutReq(ItemsOf(local)) \in net']_vars

\* C16's case: the handle was created from a configuration with sync enabled,
\* sync has been disabled in the slot since, and a save on the handle has made
\* its local write and is about to upload.
C16_Witness ==
    /\ created = "byConfig"
    /\ handle.wrapped /\ handle.enabled /\ handle.endpoint
    /\ slot = Stored("object", FALSE, FALSE)
    /\ \E p \in Procs : pc[p] = "sv_getall"

\* C17: a slot content that is no valid configuration object (absent, not
\* JSON, JSON null or another non-object value) means sync disabled:
\* getSyncConfig yields a configuration whose enabled is false, and create
\* without an override returns, with the plain store.
C17_ConfigReadFailureDisables ==
    [][(Creates /\ slot.kind # "object"
          /\ created' \notin {"forcedOn", "forcedOff"}) =>
         /\ getSyncConfig(slot).kind # "null"
         /\ ~getSyncConfig(slot).enabled
         /\ created' = "byConfig"
         /\ ~handle'.wrapped]_vars

\* C18: offline shell availability: once the worker has installed and
\* activated, a navigation to a route that install pre-cached, made while the
\* network is unavailable, is answered from a cache and does not fail.
C18_OfflineShellAvailable ==
    [][(fetchEv.pc # "done" /\ fetchEv'.pc = "done"
          /\ worker.skipWaiting /\ worker.claimed
          /\ fetchEv.request.document
          /\ fetchEv.request.path \in APP_SHELL_RESOURCES
          /\ ~network') =>
         fetchEv'.response.from = "cache"]_vars

\* C19: install is all-or-nothing: skipWaiting has been called by install only
\* if the shell bucket holds every shell resource and the static bucket every
\* static asset; when either population failed it is not called and the worker
\* does not get past installing; and the worker gets past installing only
\* through that call.
C19_InstallAllOrNothing ==
    /\ worker.skipWaiting =>
          /\ buckets[APP_SHELL_CACHE].exists
          /\ APP_SHELL_RESOURCES \subseteq buckets[APP_SHELL_CACHE].keys
          /\ buckets[STATIC_CACHE].exists
          /\ STATIC_ASSETS \subseteq buckets[STATIC_CACHE].keys
    /\ (worker.shell = "failed" \/ worker.static = "failed") =>
          /\ ~worker.skipWaiting
          /\ worker.state \in {"installing", "redundant"}
    /\ worker.state \in {"installed", "activating", "activated"} => worker.skipWaiting

\* C19's case: the shell bucket was populated, the static bucket was not, and
\* the install has failed without skipWaiting.
C19_Witness ==
    /\ worker.state = "redundant"
    /\ worker.shell = "done" /\ worker.static = "failed"
    /\ buckets[APP_SHELL_CACHE].keys = APP_SHELL_RESOURCES
    /\ ~worker.skipWaiting

\* C20: activation sweep: once the activate handler has completed (claim has
\* been called), every bucket that exists has one of the three current names,
\* every other bucket found when activation started is gone, and the shell and
\* static buckets are there as install populated them.
C20_ActivationSweep ==
    worker.claimed =>
        /\ \A n \in BucketNames :
              buckets[n].exists =>
                  n \in {"lifeos-v1", "lifeos-shell-v1", "lifeos-static-v1"}
        /\ \A n \in worker.found \ {"lifeos-v1", "lifeos-shell-v1", "lifeos-static-v1"} :
              ~buckets[n].exists
        /\ buckets[APP_SHELL_CACHE] = Bucket(APP_SHELL_RESOURCES)
        /\ buckets[STATIC_CACHE] = Bucket(STATIC_ASSETS)

\* C20's case: the stale shell bucket of the previous generation was found at
\* activation, and after it that bucket is gone and the current one is there.
C20_Witness ==
    /\ worker.claimed
    /\ "lifeos-shell-v0" \in worker.found
    /\ ~buckets["lifeos-shell-v0"].exists
    /\ buckets[APP_SHELL_CACHE].exists

\* The bucket a cache name is a generation of: the name without its version.
BucketOf(name) ==
    CASE name \in {"lifeos-shell-v0", "lifeos-shell-v1"} -> "shell"
      [] name \in {"lifeos-static-v1"} -> "static"
      [] OTHER -> "default"

\* The generations of bucket b that exist in cache storage.
Generations(b) == {n \in BucketNames : buckets[n].exists /\ BucketOf(n) = b}

\* C21 as stated: in every state of the install / activate lifecycle, through
\* the change from the previous generation's names to the current ones, at
\* most one generation of each of the shell, static and default buckets exists.
C21_OneGenerationAlways ==
    \A b \in {"shell", "static", "default"} : Cardinality(Generations(b)) <= 1

\* C21 amended: once the activate handler has completed (every delete
\* fulfilled and claim called), at most one generation of each bucket exists;
\* from install up to that point the previous generation's buckets stay.
C21_OneGenerationAfterActivation ==
    worker.claimed =>
        \A b \in {"shell", "static", "default"} : Cardinality(Generations(b)) <= 1

\* C21's case: activation found two generations of the shell bucket and two of
\* the default bucket, and has completed with one of each left.
C21_Witness ==
    /\ worker.claimed
    /\ {"lifeos-shell-v0", "lifeos-shell-v1", "lifeos-v0", "lifeos-v1"}
          \subseteq worker.found
    /\ Generations("shell") = {"lifeos-shell-v1"}
    /\ Generations("default") = {"lifeos-v1"}

\* A request that is not GET, is cross-origin, or has a scheme other than
\* http(s).
PassedThrough(request) ==
    \/ request.method # "GET"
    \/ ~request.sameOrigin
    \/ ~request.http

\* C22: pass-through: for a request that is not GET, is cross-origin or is not
\* http(s), the fetch handler does not respond and does nothing more (no
\* cache is opened, looked up or written, no fetch is made), and the step in
\* which the event is handled leaves cache storage and the pending cache
\* writes as they were.
C22_PassThrough ==
    [][(fetchEv'.request # NoReq /\ PassedThrough(fetchEv'.request)) =>
         /\ fetchEv'.pc = "done"
         /\ fetchEv'.response = NoResponse
         /\ fetchEv'.trail = <<>>
         /\ fetchEv' # fetchEv => (buckets' = buckets /\ puts' = puts)]_vars

\* C22's case: a POST to a path that has an entry in the default cache has
\* been handled, and the handler did not respond.
C22_Witness ==
    /\ fetchEv.pc = "done"
    /\ fetchEv.request.method = "POST"
    /\ fetchEv.request.path \in buckets[CACHE_NAME].keys
    /\ fetchEv.response = NoResponse

\* The handler responds to the request (it is not passed through).
Intercepted(request) == request # NoReq /\ ~PassedThrough(request)

\* The request is answered by cacheFirst: a shell or a static-asset request.
CacheFirst(request) ==
    Intercepted(request) /\ (isAppShellRequest(request) \/ isStaticAsset(request))

\* The handler of the current fetch event takes a step in which it gets the
\* result of cache.match(request).
LooksUp ==
    /\ fetchEv'.request = fetchEv.request
    /\ Len(fetchEv'.trail) > Len(fetchEv.trail)
    /\ fetchEv'.trail[Len(fetchEv.trail) + 1] = "match"

\* What the handler has done contains the step s.
Did(trail, s) == \E i \in 1..Len(trail) : trail[i] = s

\* C23: cache-first hit: when the handler of a shell or static-asset request
\* looks the request up and the default cache holds its entry, it responds
\* with that entry in the same step, and fetch has not been and is not called;
\* and no such request's handler calls fetch before it has looked up the cache.
C23_CacheFirstHit ==
    [][CacheFirst(fetchEv'.request) =>
         /\ (LooksUp /\ fetchEv.request.path \in buckets[CACHE_NAME].keys) =>
               /\ fetchEv'.pc = "done"
               /\ fetchEv'.response = Response("cache", TRUE, fetchEv.request.path)
               /\ ~Did(fetchEv'.trail, "fetch")
               /\ puts' = puts
         /\ \A i \in 1..Len(fetchEv'.trail) :
               fetchEv'.trail[i] = "fetch" =>
                   \E j \in 1..(i - 1) : fetchEv'.trail[j] = "match"]_vars

\* C23's case: a static asset that an earlier miss had stored has been served
\* from the default cache, without a fetch.
C23_Witness ==
    /\ fetchEv.pc = "done"
    /\ fetchEv.request.path = "/favicon.ico"
    /\ CacheFirst(fetchEv.request)
    /\ fetchEv.response = Response("cache", TRUE, "/favicon.ico")
    /\ fetchEv.trail = <<"open", "match">>

\* The request is answered by networkFirst.
NetworkFirst(request) ==
    Intercepted(request) /\ ~(isAppShellRequest(request) \/ isStaticAsset(request))

\* C24: network-first: the handler of an intercepted request that is neither a
\* shell nor a static-asset request calls fetch before any cache lookup and
\* looks up the cache only after the fetch has failed; a response that came
\* from the network was returned without a lookup; and the lookup after a
\* failure responds with the matching entry when there is one, goes on to the
\* cached root document when the request is a navigation, and otherwise
\* responds with the failure.  (No request that reaches networkFirst is a
\* navigation: a document request is a shell request.)
C24_NetworkFirst ==
    [][NetworkFirst(fetchEv'.request) =>
         /\ \A i \in 1..Len(fetchEv'.trail) :
               fetchEv'.trail[i] \in {"match", "match /"} =>
                   \E j \in 1..(i - 1) : fetchEv'.trail[j] = "fetch"
         /\ Did(fetchEv'.trail, "match") => ~network'
         /\ fetchEv'.response.from = "network" => ~Did(fetchEv'.trail, "match")
         /\ LooksUp =>
               IF fetchEv.request.path \in buckets[CACHE_NAME].keys
               THEN /\ fetchEv'.pc = "done"
                    /\ fetchEv'.response = Response("cache", TRUE, fetchEv.request.path)
               ELSE IF fetchEv.request.document
               THEN fetchEv'.pc = "nf_fallback"
               ELSE /\ fetchEv'.pc = "done"
                    /\ fetchEv'.response = Failure]_vars

\* C24's case: an API request whose response an earlier fetch had stored has
\* been answered from the default cache after its own fetch failed.
C24_Witness ==
    /\ fetchEv.pc = "done"
    /\ NetworkFirst(fetchEv.request)
    /\ fetchEv.request.path = "/api/items"
    /\ ~network
    /\ fetchEv.response = Response("cache", TRUE, "/api/items")
    /\ fetchEv.trail = <<"open", "fetch", "match">>

\* C25: cache-first miss stores before returning: when the handler of a
\* cache-first request that missed the cache returns the network's response,
\* a successful response has its copy in the default cache by then, and a
\* response that is not a success has been handed to no cache write.
C25_StoredBeforeReturned ==
    [][(/\ CacheFirst(fetchEv'.request)
        /\ fetchEv.pc # "done" /\ fetchEv'.pc = "done"
        /\ fetchEv'.response.from = "network") =>
         IF fetchEv'.response.ok
         THEN fetchEv'.request.path \in buckets'[CACHE_NAME].keys
         ELSE puts' = puts /\ buckets' = buckets]_vars

\* C26: getAll does not block on the network: a getAll that is pending is
\* never suspended on the remote GET (it waits for local storage only), so it
\* resolves whether or not the GET ever completes.
C26_GetAllNeverAwaitsDownload ==
    \A p \in Procs :
        (kind[p] = "getAll" /\ status[p] = "pending") => pc[p] # "ga_download"

\* C27: local durability failures are surfaced: a getAll whose merge loop has
\* a remote-only record to import and settles in that turn, which happens only
\* when the local write of that record failed, rejects.
C27_ImportFailureSurfaced ==
    [][\A p \in Procs :
         (/\ pc[p] = "ga_merge" /\ Settles(p)
          /\ remoteItems[p] # <<>>
          /\ localMap[p][Head(remoteItems[p]).id] = NoRec) =>
             status'[p] = "rejected"]_vars

\* C28: a failed save leaves no trace: when save(r) rejects, the local store
\* does not hold the record that this call put there.
C28_FailedSaveLeavesNoTrace ==
    [][\A p \in Procs :
         (kind[p] = "save" /\ Settles(p) /\ status'[p] = "rejected") =>
             ~(/\ result[p].item # NoRec
               /\ local'[arg[p].id] = result[p].item)]_vars

\* C29: getAll returns what is stored: every record in the list a getAll
\* resolves with, having run with no concurrent operation, equals in every
\* field the record the local store holds under its id at that moment.
C29_GetAllReturnsStored ==
    [][\A p \in Procs :
         (kind[p] = "getAll" /\ Settles(p) /\ status'[p] = "resolved" /\ alone[p]) =>
             \A i \in 1..Len(result'[p].items) :
                 result'[p].items[i] = local'[result'[p].items[i].id]]_vars

\* C30: out-of-order uploads are safe: after saves only, with sync enabled and
\* reachable and every upload succeeding, once no save is pending and every
\* upload has completed, the backend's snapshot equals the local collection.
C30_UploadsConverge ==
    (calls > 0 /\ Quiet /\ net = {}) => remote = local
====
